---------------------------- MODULE Spec2Model ----------------------------
(***************************************************************************)
(* StableSR sampling script scripts/sr_val_ddpm_text_T_vqganfin_oldcanvas  *)
(* as a state machine: space_timesteps, the respacing pass of main, the    *)
(* image loading and sampling loops of main, and                           *)
(* adaptive_instance_normalization.                                        *)
(*                                                                         *)
(* Python floats (IEEE-754 binary64) are modelled bit-exactly for the      *)
(* values space_timesteps computes: every such value is 0 or lies in       *)
(* [1, 2^19), hence is a multiple of 2^-52, and is held as the integer     *)
(* x * 2^52 in three limbs <<a, b, c>> = a*2^40 + b*2^20 + c.              *)
(***************************************************************************)
EXTENDS Integers, Sequences, FiniteSets

VARIABLES
    pc,                \* position of the program
    num_timesteps,     \* space_timesteps: first argument
    section_counts,    \* space_timesteps: second argument
    use_timesteps,     \* main: set(space_timesteps(...))
    alphas_cumprod,    \* model.alphas_cumprod, a sequence of rationals
    new_betas,         \* main: new_betas
    timestep_map,      \* main: timestep_map
    ori_timesteps,     \* model.ori_timesteps
    opt,               \* main: the parsed command line
    img_list_ori,      \* main: os.listdir(opt.init_img)
    sample_dir,        \* names present in <outdir>/samples
    too_large,         \* names whose image has 448*624 pixels or more
    load_k,            \* main: position of the loading loop in img_list_ori
    img_list,          \* main: img_list
    init_image_list,   \* main: init_image_list, each image named by its file
    n,                 \* main: index of the sampling loop
    niqe_list,         \* main: niqe_list
    saved,             \* files written to <outdir>/samples, in order
    canvas_calls,      \* the calls of model.sample_canvas, in order
    all_samples,       \* main: all_samples
    content_feat,      \* adaptive_instance_normalization: first argument
    style_feat,        \* adaptive_instance_normalization: second argument
    adain_out          \* adaptive_instance_normalization: returned tensor

respace_vars == <<num_timesteps, section_counts, use_timesteps, alphas_cumprod,
                  new_betas, timestep_map, ori_timesteps>>
main_vars == <<opt, img_list_ori, sample_dir, too_large, load_k, img_list,
               init_image_list, n, niqe_list, saved, canvas_calls, all_samples>>
adain_vars == <<content_feat, style_feat, adain_out>>
vars == <<pc, respace_vars, main_vars, adain_vars>>

---------------------------------------------------------------------------
(* Bounds of the model *)

\* space_timesteps as a function: schedule lengths 1..MaxN, 1..MaxSections sections
MaxN == 17
MaxSections == 2
\* respacing of arbitrary schedules: cumulative retentions k / AlphaDen
AlphaDen == 6
\* main: at most MaxFiles files in the input directory
MaxFiles == 2
\* adaptive_instance_normalization: tensors of 1 x MaxChannels x (1..MaxPixels)
\* with pixel values 0..MaxPixelValue
MaxChannels == 2
MaxPixels == 2
MaxPixelValue == 2

\* the step count of the scenario of the specification's section 8
ScenarioCount == 50

---------------------------------------------------------------------------
(* Constants of the program *)

\* lines 318-320: timesteps=1000, model.num_timesteps = 1000
NumTimesteps == 1000
\* line 370: torch.tensor([999])
QSampleT == 999
\* line 374: tile_size=64
TileSize == 64
\* line 252: default of --tile_overlap
DefaultTileOverlap == 32
\* line 140: image[None], a batch of one image
BatchSize == 1
\* line 28: eps=1e-5, as 1 / EpsDen
EpsDen == 100000

---------------------------------------------------------------------------
(* binary64 arithmetic *)

LimbBase == 1048576
IntScale == 4096

RECURSIVE Pow2(_)
Pow2(k) == IF k = 0 THEN 1 ELSE 2 * Pow2(k - 1)

RECURSIVE Log2(_)
Log2(v) == IF v <= 1 THEN 0 ELSE 1 + Log2(v \div 2)

DblNorm(a, b, c) ==
    LET b1 == b + (c \div LimbBase)
    IN  <<a + (b1 \div LimbBase), b1 % LimbBase, c % LimbBase>>

DblZero == <<0, 0, 0>>

DblOfInt(v) == <<v * IntScale, 0, 0>>

\* floor(log2 x) of a value x >= 1; one ulp of x is 2^Binade(x) units of 2^-52
Binade(X) == Log2(X[1] \div IntScale)

\* round to nearest, ties to even, at the bit of weight p (in limb c);
\* tail tells how the part below that bit compares with one half of p
RoundNearestEven(X, p, tail) ==
    LET low == X[3] % p
        odd == ((X[3] \div p) % 2) = 1
        up  == tail = "above" \/ (tail = "half" /\ odd)
    IN  DblNorm(X[1], X[2], (X[3] - low) + (IF up THEN p ELSE 0))

\* x + y, correctly rounded
DblAdd(X, Y) ==
    LET S    == DblNorm(X[1] + Y[1], X[2] + Y[2], X[3] + Y[3])
        p    == Pow2(Binade(S))
        low  == S[3] % p
        tail == IF low = 0 THEN "zero"
                ELSE IF 2 * low < p THEN "below"
                ELSE IF 2 * low = p THEN "half" ELSE "above"
    IN  RoundNearestEven(S, p, tail)

\* num / d for integers num >= d >= 1, correctly rounded (Python's int / int)
DblDiv(num, d) ==
    LET a0 == num * IntScale
        qa == a0 \div d
        r1 == a0 % d
        qb == (r1 * LimbBase) \div d
        r2 == (r1 * LimbBase) % d
        qc == (r2 * LimbBase) \div d
        r3 == (r2 * LimbBase) % d
        Q  == <<qa, qb, qc>>
        p    == Pow2(Binade(Q))
        low  == qc % p
        tail == IF p = 1
                THEN (IF r3 = 0 THEN "zero"
                      ELSE IF 2 * r3 < d THEN "below"
                      ELSE IF 2 * r3 = d THEN "half" ELSE "above")
                ELSE (IF low = 0 /\ r3 = 0 THEN "zero"
                      ELSE IF 2 * low < p THEN "below"
                      ELSE IF 2 * low = p /\ r3 = 0 THEN "half" ELSE "above")
    IN  RoundNearestEven(Q, p, tail)

\* a slip of line 103: int(cur_idx) for round(cur_idx)
PyRoundTruncating(X) == X[1] \div IntScale

\* Python's round(x) of a float: nearest integer, ties to the even one
PyRound(X) ==
    LET ip == X[1] \div IntScale
        fa == X[1] % IntScale
        half == IntScale \div 2
        up == \/ fa > half
              \/ fa = half /\ (X[2] > 0 \/ X[3] > 0)
              \/ fa = half /\ X[2] = 0 /\ X[3] = 0 /\ ip % 2 = 1
    IN  ip + (IF up THEN 1 ELSE 0)

---------------------------------------------------------------------------
(* space_timesteps *)

\* a slip of line 91: the first N % k sections do not get their extra step
SectionSizeNoExtra(N, k, i) == N \div k

\* line 91: size = size_per + (1 if i < extra else 0), i counted from 0
SectionSize(N, k, i) == (N \div k) + (IF i < N % k THEN 1 ELSE 0)

\* a slip of line 99: the stride spans size steps, not size - 1
FracStrideWholeSize(size, section_count) ==
    IF section_count <= 1 THEN DblOfInt(1)
    ELSE DblDiv(size, section_count - 1)

\* lines 96-99
FracStride(size, section_count) ==
    IF section_count <= 1 THEN DblOfInt(1)
    ELSE DblDiv(size - 1, section_count - 1)

\* lines 103-104: one pass of the loop body; st = [cur_idx, taken_steps]
TakeStep(st, start_idx, frac_stride) ==
    [cur_idx |-> DblAdd(st.cur_idx, frac_stride),
     taken_steps |-> Append(st.taken_steps, start_idx + PyRound(st.cur_idx))]

\* line 102: for _ in range(section_count), the body run reps times in sequence
\* (split in halves, the first half evaluated before the second starts: the
\* test on mid only forces its evaluation, both branches are the same)
RECURSIVE TakeLoop(_, _, _, _)
TakeLoop(st, start_idx, frac_stride, reps) ==
    IF reps <= 0 THEN st
    ELSE IF reps = 1 THEN TakeStep(st, start_idx, frac_stride)
    ELSE LET mid == TakeLoop(st, start_idx, frac_stride, reps \div 2)
         IN  IF mid.cur_idx = DblZero
             THEN TakeLoop(mid, start_idx, frac_stride, reps - (reps \div 2))
             ELSE TakeLoop(mid, start_idx, frac_stride, reps - (reps \div 2))

\* lines 96-105 for one section
TakenSteps(start_idx, size, section_count) ==
    TakeLoop([cur_idx |-> DblZero, taken_steps |-> <<>>], start_idx,
             FracStride(size, section_count), section_count).taken_steps

\* lines 90-106: the loop over the sections, i counted from 0
RECURSIVE SectionLoop(_, _, _, _, _)
SectionLoop(N, counts, i, start_idx, all_steps) ==
    IF i >= Len(counts) THEN [err |-> FALSE, steps |-> all_steps]
    ELSE LET size == SectionSize(N, Len(counts), i)
             section_count == counts[i + 1]
         IN  IF size < section_count
             THEN [err |-> TRUE, steps |-> <<>>]
             ELSE SectionLoop(N, counts, i + 1, start_idx + size,
                              all_steps \o TakenSteps(start_idx, size, section_count))

SeqRange(s) == {s[x] : x \in DOMAIN s}

\* len(range(0, stop, step))
RangeLen(stop, step) == (stop + step - 1) \div step

\* range(0, stop, step) as a set
RangeSet(stop, step) == {x \in 0..(stop - 1) : x % step = 0}

\* lines 79-84: for i in range(1, num_timesteps)
RECURSIVE DdimSearch(_, _, _)
DdimSearch(N, desired_count, i) ==
    IF i >= N THEN [err |-> TRUE, steps |-> {}]
    ELSE IF RangeLen(N, i) = desired_count
         THEN [err |-> FALSE, steps |-> RangeSet(N, i)]
         ELSE DdimSearch(N, desired_count, i + 1)

\* lines 76-107; section_counts is [ddim |-> TRUE, desired_count |-> d] for
\* the string "ddim<d>" and [ddim |-> FALSE, counts |-> list] for a list of
\* integers (or the string of comma-separated integers line 85 parses)
space_timesteps(N, sc) ==
    IF sc.ddim
    THEN DdimSearch(N, sc.desired_count, 1)
    ELSE LET r == SectionLoop(N, sc.counts, 0, 0, <<>>)
         IN  [err |-> r.err, steps |-> SeqRange(r.steps)]

---------------------------------------------------------------------------
(* Rational numbers <<numerator, denominator>> in lowest terms, denominator > 0:
   the real values the schedule tensors hold *)

RECURSIVE Gcd(_, _)
Gcd(x, y) == IF y = 0 THEN x ELSE Gcd(y, x % y)

Abs(x) == IF x < 0 THEN -x ELSE x

Rat(x, y) ==
    LET g == Gcd(Abs(x), Abs(y))
        sgn == IF y < 0 THEN -1 ELSE 1
    IN  <<(sgn * x) \div g, (sgn * y) \div g>>

RatOne == <<1, 1>>
RatSub(x, y) == Rat(x[1] * y[2] - y[1] * x[2], x[2] * y[2])
RatMul(x, y) == Rat(x[1] * y[1], x[2] * y[2])
RatDiv(x, y) == Rat(x[1] * y[2], x[2] * y[1])

---------------------------------------------------------------------------
(* main: the respacing pass *)

\* a slip of line 330: the ratio to the previously selected step is left out
NewBetaOfRetention(alpha_cumprod, last_alpha_cumprod) ==
    RatSub(RatOne, alpha_cumprod)

\* line 330: 1 - alpha_cumprod / last_alpha_cumprod
NewBeta(alpha_cumprod, last_alpha_cumprod) ==
    RatSub(RatOne, RatDiv(alpha_cumprod, last_alpha_cumprod))

\* lines 329-332: the body of the loop for original index i;
\* rs = [last_alpha_cumprod, new_betas, timestep_map]
RespaceStep(rs, i, alphas, use) ==
    IF i \in use
    THEN [last_alpha_cumprod |-> alphas[i + 1],
          new_betas |-> Append(rs.new_betas,
                               NewBeta(alphas[i + 1], rs.last_alpha_cumprod)),
          timestep_map |-> Append(rs.timestep_map, i)]
    ELSE rs

\* line 328: for i, alpha_cumprod in enumerate(model.alphas_cumprod), the
\* passes for i = lo .. lo + reps - 1 in sequence (split in halves, the first
\* half evaluated before the second starts: the test on mid only forces its
\* evaluation, both branches are the same)
RECURSIVE RespaceLoop(_, _, _, _, _)
RespaceLoop(rs, lo, reps, alphas, use) ==
    IF reps <= 0 THEN rs
    ELSE IF reps = 1 THEN RespaceStep(rs, lo, alphas, use)
    ELSE LET h == reps \div 2
             mid == RespaceLoop(rs, lo, h, alphas, use)
         IN  IF mid.timestep_map = <<>>
             THEN RespaceLoop(mid, lo + h, reps - h, alphas, use)
             ELSE RespaceLoop(mid, lo + h, reps - h, alphas, use)

\* lines 325-332
RespacePass(alphas, use) ==
    RespaceLoop([last_alpha_cumprod |-> RatOne, new_betas |-> <<>>,
                 timestep_map |-> <<>>], 0, Len(alphas), alphas, use)

\* lines 336-337: list(use_timesteps) sorted ascending; the members of S
\* between lo and hi, in ascending order
RECURSIVE SortedRange(_, _, _)
SortedRange(S, lo, hi) ==
    IF lo > hi THEN <<>>
    ELSE IF lo = hi THEN (IF lo \in S THEN <<lo>> ELSE <<>>)
    ELSE LET m == (lo + hi) \div 2
         IN  SortedRange(S, lo, m) \o SortedRange(S, m + 1, hi)

SetMin(S) == CHOOSE x \in S : \A y \in S : x <= y
SetMax(S) == CHOOSE x \in S : \A y \in S : y <= x

SortedList(S) == IF S = {} THEN <<>> ELSE SortedRange(S, SetMin(S), SetMax(S))

---------------------------------------------------------------------------
(* Values of the variables a specification does not use *)

NoOpt == [ddpm_steps |-> 0, tile_overlap |-> 0, skip_save |-> FALSE,
          skip_grid |-> FALSE]

MainIdle ==
    /\ opt = NoOpt
    /\ img_list_ori = <<>>
    /\ sample_dir = {}
    /\ too_large = {}
    /\ load_k = 0
    /\ img_list = <<>>
    /\ init_image_list = <<>>
    /\ n = 0
    /\ niqe_list = <<>>
    /\ saved = <<>>
    /\ canvas_calls = <<>>
    /\ all_samples = <<>>

AdainIdle ==
    /\ content_feat = <<>>
    /\ style_feat = <<>>
    /\ adain_out = <<>>

RespaceIdle ==
    /\ use_timesteps = {}
    /\ new_betas = <<>>
    /\ timestep_map = <<>>
    /\ ori_timesteps = <<>>

---------------------------------------------------------------------------
(* space_timesteps and the respacing pass, called on their own *)

\* a schedule of length N: retentions N/(N+1), (N-1)/(N+1), .., 1/(N+1)
LinearAlphas(N) == [i \in 1..N |-> Rat(N + 1 - i, N + 1)]

\* the lists of k counts for N steps, each count from 0 to one more than
\* its section holds
CountLists(N, k) ==
    {c \in [1..k -> 0..(N + 1)] :
        \A i \in 1..k : c[i] <= SectionSize(N, k, i - 1) + 1}

ListInput(c) == [ddim |-> FALSE, desired_count |-> 0, counts |-> c]
DdimInput(d) == [ddim |-> TRUE, desired_count |-> d, counts |-> <<>>]

SectionInputs(N) ==
    {ListInput(c) : c \in UNION {CountLists(N, k) : k \in 1..MaxSections}}
    \cup {DdimInput(d) : d \in 0..(N + 1)}

InitST ==
    /\ pc = "st_call"
    /\ \/ /\ num_timesteps \in 1..MaxN
          /\ section_counts \in SectionInputs(num_timesteps)
       \/ /\ num_timesteps = NumTimesteps
          /\ section_counts = ListInput(<<ScenarioCount>>)
    /\ alphas_cumprod = LinearAlphas(num_timesteps)
    /\ RespaceIdle
    /\ MainIdle
    /\ AdainIdle

\* the strictly decreasing sequence of the retentions k / AlphaDen, k in T
DecreasingAlphas(T) ==
    LET s == SortedList(T)
    IN  [i \in 1..Len(s) |-> Rat(s[Len(s) + 1 - i], AlphaDen)]

InitRespace ==
    /\ pc = "st_call"
    /\ \E T \in (SUBSET (1..AlphaDen)) \ {{}} :
          /\ num_timesteps = Cardinality(T)
          /\ alphas_cumprod = DecreasingAlphas(T)
    /\ section_counts \in
          {ListInput(c) : c \in UNION {CountLists(num_timesteps, k) :
                                          k \in 1..MaxSections}}
    /\ RespaceIdle
    /\ MainIdle
    /\ AdainIdle

\* line 324 on its own: use_timesteps = set(space_timesteps(N, counts)), or
\* the ValueError of lines 82 and 93
STCall ==
    /\ pc = "st_call"
    /\ LET r == space_timesteps(num_timesteps, section_counts)
       IN  IF r.err
           THEN /\ pc' = "st_error"
                /\ UNCHANGED use_timesteps
           ELSE /\ pc' = "respace"
                /\ use_timesteps' = r.steps
    /\ UNCHANGED <<num_timesteps, section_counts, alphas_cumprod, new_betas,
                   timestep_map, ori_timesteps, main_vars, adain_vars>>

\* lines 325-337 on their own
Respace ==
    /\ pc = "respace"
    /\ LET rs == RespacePass(alphas_cumprod, use_timesteps)
       IN  /\ new_betas' = rs.new_betas
           /\ timestep_map' = rs.timestep_map
    /\ ori_timesteps' = SortedList(use_timesteps)
    /\ pc' = "st_done"
    /\ UNCHANGED <<num_timesteps, section_counts, use_timesteps, alphas_cumprod,
                   main_vars, adain_vars>>

NextST == STCall \/ Respace

SpecST == InitST /\ [][NextST]_vars

SpecRespace == InitRespace /\ [][NextST]_vars

---------------------------------------------------------------------------
(* main: loading, schedule, sampling loop, grid, final assertion.  Images are
   named by the file they were loaded from; their pixels play no part here. *)

\* --ddpm_steps: none, one, two, the scenario's count, one more than the schedule
DdpmStepsChoices == {0, 1, 2, ScenarioCount, NumTimesteps + 1}
\* --tile_overlap
TileOverlapChoices == {0, DefaultTileOverlap}

\* a slip of lines 303 and 307: the skipped name stays in img_list
ListRemoveNothing(list, item) == list

\* list.remove(item): the list without the first occurrence of item
ListRemove(list, item) ==
    LET at == CHOOSE i \in 1..Len(list) :
                  list[i] = item /\ \A j \in 1..(i - 1) : list[j] # item
    IN  SubSeq(list, 1, at - 1) \o SubSeq(list, at + 1, Len(list))

\* model.register_schedule(given_betas=..) of ldm, outside this script: an
\* empty array of betas is taken to be refused there
RegisterScheduleAccepts(betas) == Len(betas) > 0

\* the tile layout inside model.sample_canvas, outside this script: it has no
\* failure mode beyond a non-positive size or overlap
TileLayoutValid(tile_size, tile_overlap) == tile_size > 0 /\ tile_overlap > 0

InitMain ==
    /\ pc = "load"
    /\ opt \in [ddpm_steps : DdpmStepsChoices, tile_overlap : TileOverlapChoices,
                skip_save : BOOLEAN, skip_grid : BOOLEAN]
    /\ \E m \in 0..MaxFiles : img_list_ori = [i \in 1..m |-> i]
    /\ sample_dir \in SUBSET SeqRange(img_list_ori)
    /\ too_large \in SUBSET SeqRange(img_list_ori)
    /\ img_list = img_list_ori
    /\ init_image_list = <<>>
    /\ load_k = 0
    /\ n = 0
    /\ niqe_list = <<>>
    /\ saved = <<>>
    /\ canvas_calls = <<>>
    /\ all_samples = <<>>
    /\ num_timesteps = 0
    /\ section_counts = ListInput(<<>>)
    /\ alphas_cumprod = <<>>
    /\ RespaceIdle
    /\ AdainIdle

\* lines 301-316: one pass of the loading loop
LoadItem ==
    /\ pc = "load"
    /\ load_k < Len(img_list_ori)
    /\ LET item == img_list_ori[load_k + 1]
       IN  IF item \in sample_dir \/ item \in too_large
           THEN /\ img_list' = ListRemove(img_list, item)
                /\ UNCHANGED init_image_list
           ELSE /\ init_image_list' = Append(init_image_list, item)
                /\ UNCHANGED img_list
    /\ load_k' = load_k + 1
    /\ UNCHANGED <<pc, respace_vars, opt, img_list_ori, sample_dir, too_large, n,
                   niqe_list, saved, canvas_calls, all_samples, adain_vars>>

\* lines 318-337: the schedule of 1000 steps, the step set, the respacing
\* pass, the new schedule
Schedule ==
    /\ pc = "load"
    /\ load_k = Len(img_list_ori)
    /\ num_timesteps' = NumTimesteps
    /\ section_counts' = ListInput(<<opt.ddpm_steps>>)
    /\ alphas_cumprod' = LinearAlphas(NumTimesteps)
    /\ LET r == space_timesteps(NumTimesteps, ListInput(<<opt.ddpm_steps>>))
           rs == RespacePass(LinearAlphas(NumTimesteps), r.steps)
       IN  IF r.err
           THEN /\ pc' = "error"
                /\ UNCHANGED <<use_timesteps, new_betas, timestep_map, ori_timesteps>>
           ELSE /\ use_timesteps' = r.steps
                /\ new_betas' = rs.new_betas
                /\ timestep_map' = rs.timestep_map
                /\ IF RegisterScheduleAccepts(rs.new_betas)
                   THEN /\ ori_timesteps' = SortedList(r.steps)
                        /\ pc' = "sample"
                   ELSE /\ pc' = "error"
                        /\ UNCHANGED ori_timesteps
    /\ UNCHANGED <<main_vars, adain_vars>>

\* lines 349-397: one pass of the sampling loop (a batch of one image)
SampleImage ==
    /\ pc = "sample"
    /\ n < Len(init_image_list)
    /\ LET init_image == init_image_list[n + 1]
           call == [t |-> QSampleT, timesteps |-> opt.ddpm_steps,
                    tile_size |-> TileSize, tile_overlap |-> opt.tile_overlap]
       IN  /\ canvas_calls' = Append(canvas_calls, call)
           /\ IF ~TileLayoutValid(TileSize, opt.tile_overlap)
              THEN /\ pc' = "error"
                   /\ UNCHANGED <<img_list, niqe_list, saved, all_samples, n>>
              ELSE IF ~opt.skip_save /\ img_list = <<>>
              THEN /\ pc' = "error"
                   /\ UNCHANGED <<img_list, niqe_list, saved, all_samples, n>>
              ELSE /\ IF ~opt.skip_save
                      THEN /\ img_list' = Tail(img_list)
                           /\ niqe_list' = Append(niqe_list, init_image)
                           /\ saved' = Append(saved, [name |-> Head(img_list),
                                                      image |-> init_image])
                      ELSE UNCHANGED <<img_list, niqe_list, saved>>
                   /\ all_samples' = IF ~opt.skip_grid
                                     THEN Append(all_samples, init_image)
                                     ELSE all_samples
                   /\ n' = n + 1
                   /\ pc' = "sample"
    /\ UNCHANGED <<respace_vars, opt, img_list_ori, sample_dir, too_large, load_k,
                   init_image_list, adain_vars>>

\* lines 399-416: the grid; torch.stack refuses an empty list
Grid ==
    /\ pc = "sample"
    /\ n = Len(init_image_list)
    /\ pc' = IF ~opt.skip_grid /\ all_samples = <<>> THEN "error" ELSE "assert"
    /\ UNCHANGED <<respace_vars, main_vars, adain_vars>>

\* line 418: assert len(niqe_list) == len(img_list)
FinalAssert ==
    /\ pc = "assert"
    /\ pc' = IF Len(niqe_list) = Len(img_list) THEN "done" ELSE "assert_failed"
    /\ UNCHANGED <<respace_vars, main_vars, adain_vars>>

Next == LoadItem \/ Schedule \/ SampleImage \/ Grid \/ FinalAssert

Spec == InitMain /\ [][Next]_vars

---------------------------------------------------------------------------
(* adaptive_instance_normalization.  Tensor values are rationals; NaN is
   <<0, 0>>.  A standard deviation is held by its square (variance + eps). *)

NaN == <<0, 0>>
IsNaN(x) == x[2] = 0

\* x / y of floats for x = 0 or y # 0: 0 / 0 is NaN
FRat(x, y) == IF y = 0 THEN NaN ELSE Rat(x, y)

FAddR(x, y) ==
    IF IsNaN(x) \/ IsNaN(y) THEN NaN
    ELSE Rat(x[1] * y[2] + y[1] * x[2], x[2] * y[2])

RECURSIVE SeqSum(_)
SeqSum(px) == IF px = <<>> THEN 0 ELSE Head(px) + SeqSum(Tail(px))

\* line 40: mean over the h*w values of one channel
PlaneMean(px) == Rat(SeqSum(px), Len(px))

\* line 38: Tensor.var(dim=2), the unbiased estimate: the sum of the squared
\* deviations, (n * sum(x^2) - sum(x)^2) / n, over n - 1
PlaneVar(px) ==
    LET cnt == Len(px)
        sum == SeqSum(px)
        sumsq == SeqSum([i \in 1..cnt |-> px[i] * px[i]])
    IN  FRat(cnt * sumsq - sum * sum, cnt * (cnt - 1))

\* lines 28-41; feat[b][c] is the sequence of the h*w values of a channel
calc_mean_std(feat) ==
    [b \in DOMAIN feat |->
        [c \in DOMAIN feat[b] |->
            [mean |-> PlaneMean(feat[b][c]),
             var_eps |-> FAddR(PlaneVar(feat[b][c]), <<1, EpsDen>>)]]]

\* lines 43-55; a returned value is
\* dev / sqrt(content_var) * sqrt(style_var) + mean, NaN when nan
adaptive_instance_normalization(content, style) ==
    LET s == calc_mean_std(style)
        c == calc_mean_std(content)
    IN  [b \in DOMAIN content |->
            [ch \in DOMAIN content[b] |->
                [i \in DOMAIN content[b][ch] |->
                    [dev |-> RatSub(<<content[b][ch][i], 1>>, c[b][ch].mean),
                     content_var |-> c[b][ch].var_eps,
                     style_var |-> s[b][ch].var_eps,
                     mean |-> s[b][ch].mean,
                     nan |-> IsNaN(c[b][ch].var_eps) \/ IsNaN(s[b][ch].var_eps)]]]]

Tensors(channels, pixels) ==
    [1..BatchSize -> [1..channels -> [1..pixels -> 0..MaxPixelValue]]]

InitAdain ==
    /\ pc = "adain_call"
    /\ \E channels \in 1..MaxChannels : \E pixels \in 1..MaxPixels :
          /\ content_feat \in Tensors(channels, pixels)
          /\ style_feat \in Tensors(channels, pixels)
    /\ adain_out = <<>>
    /\ num_timesteps = 0
    /\ section_counts = ListInput(<<>>)
    /\ alphas_cumprod = <<>>
    /\ RespaceIdle
    /\ MainIdle

\* line 380: the call of adaptive_instance_normalization
AdainCall ==
    /\ pc = "adain_call"
    /\ adain_out' = adaptive_instance_normalization(content_feat, style_feat)
    /\ pc' = "adain_done"
    /\ UNCHANGED <<respace_vars, main_vars, content_feat, style_feat>>

NextAdain == AdainCall

SpecAdain == InitAdain /\ [][NextAdain]_vars

---------------------------------------------------------------------------
(* The reference the claims about space_timesteps are stated against *)

RefSectionSize(N, k, i) == (N \div k) + (IF i < N % k THEN 1 ELSE 0)

RefSectionStart(N, k, i) == i * (N \div k) + (IF i < N % k THEN i ELSE N % k)

\* num / den rounded to the nearest integer, a half to the even neighbour
RoundHalfEven(num, den) ==
    LET q == num \div den
        r == num % den
    IN  IF 2 * r < den THEN q
        ELSE IF 2 * r > den THEN q + 1
        ELSE IF q % 2 = 0 THEN q ELSE q + 1

RefIndex(S, C, j) == IF C = 1 THEN 0 ELSE RoundHalfEven(j * (S - 1), C - 1)

RefSteps(N, counts) ==
    LET k == Len(counts)
    IN  UNION {{RefSectionStart(N, k, i) + RefIndex(RefSectionSize(N, k, i), counts[i + 1], j) :
                  j \in 0..(counts[i + 1] - 1)} : i \in 0..(k - 1)}

\* the integers within one half of j * (S - 1) / (C - 1): one, or two at a half
NearestIndices(S, C, j) ==
    IF C = 1 THEN {0}
    ELSE {r \in 0..(S - 1) : 2 * Abs(r * (C - 1) - j * (S - 1)) <= C - 1}

ListMode == ~section_counts.ddim
Returned == pc \in {"respace", "st_done"}
Called == pc # "st_call"

CountsFit ==
    \A i \in 1..Len(section_counts.counts) :
        /\ section_counts.counts[i] >= 1
        /\ section_counts.counts[i]
              <= RefSectionSize(num_timesteps, Len(section_counts.counts), i - 1)

---------------------------------------------------------------------------
(* C1. Respacing correctness: after the respacing pass over a strictly
   decreasing schedule and a step set of space_timesteps, the product of
   (1 - new_beta) up to and including each selected step equals alpha_bar at
   that step's original index, and the selected steps are exactly the step
   set in ascending order. *)

RECURSIVE RetentionProduct(_)
RetentionProduct(p) ==
    IF p = 0 THEN RatOne
    ELSE RatMul(RetentionProduct(p - 1), RatSub(RatOne, new_betas[p]))

C1_RespacingCorrect ==
    pc = "st_done" =>
        /\ Len(new_betas) = Len(timestep_map)
        /\ timestep_map = SortedList(use_timesteps)
        /\ \A p \in 1..Len(timestep_map) :
              RetentionProduct(p) = alphas_cumprod[timestep_map[p] + 1]

C1_Witness ==
    /\ pc = "st_done"
    /\ Len(timestep_map) >= 3
    /\ timestep_map[1] + 1 < timestep_map[2]
    /\ alphas_cumprod[1] # RatOne

(* C2 as stated. For every list of counts that fit their sections,
   space_timesteps returns exactly the reference set: section start plus
   round(j * (S - 1) / (C - 1)), Python's round (a half goes to the even
   neighbour), and the start alone when C = 1. *)

C2_Original ==
    (Called /\ ListMode /\ CountsFit) =>
        /\ Returned
        /\ use_timesteps = RefSteps(num_timesteps, section_counts.counts)

(* C2 as amended. For every list of counts that fit their sections,
   space_timesteps returns, for every section and every j, the section start
   plus an integer nearest to j * (S - 1) / (C - 1) (the start alone when
   C = 1), and nothing else: the reference index wherever the quotient is
   not exactly a half, either neighbour where it is. *)

C2_NearestIndices ==
    (Called /\ ListMode /\ CountsFit) =>
        LET N == num_timesteps
            counts == section_counts.counts
            k == Len(counts)
            Near(i, j) == {RefSectionStart(N, k, i) + r :
                             r \in NearestIndices(RefSectionSize(N, k, i), counts[i + 1], j)}
        IN  /\ Returned
            /\ \A t \in use_timesteps :
                  \E i \in 0..(k - 1) : \E j \in 0..(counts[i + 1] - 1) : t \in Near(i, j)
            /\ \A i \in 0..(k - 1) : \A j \in 0..(counts[i + 1] - 1) :
                  \E t \in use_timesteps : t \in Near(i, j)

C2_Witness ==
    /\ Returned /\ ListMode /\ CountsFit
    /\ Len(section_counts.counts) = 1
    /\ use_timesteps # RefSteps(num_timesteps, section_counts.counts)

(* C3 as stated. In fixed-stride mode space_timesteps returns
   {0, s, 2s, ..} below N for the smallest stride s in 1..N, N included, for
   which that set has exactly desired_count elements, and fails only when no
   stride in 1..N gives that count. *)

C3_Original ==
    (Called /\ ~ListMode) =>
        LET N == num_timesteps
            Strided(s) == {x \in 0..(N - 1) : x % s = 0}
            strides == {s \in 1..N : Cardinality(Strided(s)) = section_counts.desired_count}
        IN  IF strides = {} THEN pc = "st_error"
            ELSE /\ Returned
                 /\ use_timesteps = Strided(SetMin(strides))

(* C4. In list mode with at least one section, space_timesteps fails, and
   returns no step set, if and only if some section's count exceeds that
   section's size. *)

C5_SingleSection ==
    LET counts == section_counts.counts
        C == counts[1]
    IN  (Called /\ ListMode /\ Len(counts) = 1 /\ 2 <= C /\ C <= num_timesteps) =>
            /\ Returned
            /\ pc = "st_done" =>
                  /\ Len(timestep_map) = C
                  /\ Len(new_betas) = C
                  /\ timestep_map[1] = 0
                  /\ timestep_map[C] = num_timesteps - 1
                  /\ \A p \in 1..(C - 1) : timestep_map[p] < timestep_map[p + 1]
                  /\ C = num_timesteps => timestep_map = [p \in 1..C |-> p - 1]

C5_Witness ==
    /\ pc = "st_done" /\ ListMode
    /\ num_timesteps = NumTimesteps
    /\ section_counts.counts = <<ScenarioCount>>
    /\ Len(timestep_map) = ScenarioCount

(* C6 as stated. Every run whose --ddpm_steps is not in 1..1000 or whose
   tile overlap is not positive stops with an error before the first call of
   model.sample_canvas: no call of sample_canvas is made under such a
   configuration. *)

ConfigValid ==
    /\ opt.ddpm_steps >= 1
    /\ opt.ddpm_steps <= NumTimesteps
    /\ opt.tile_overlap > 0

C6_Original == canvas_calls # <<>> => ConfigValid

(* C7 as stated. For every accepted --ddpm_steps (1..1000, the tile overlap
   valid), in every call of the sampler the timestep at which x_T was noised
   (999) is the largest original index of the selected step set. *)

C7_Original ==
    ConfigValid =>
        \A k \in 1..Len(canvas_calls) :
            canvas_calls[k].t = ori_timesteps[Len(ori_timesteps)]

(* C8 as stated. For a generated image that is constant in every channel,
   adaptive_instance_normalization returns in every batch item, channel and
   position the reference's mean of that channel, and the divisor (the
   generated image's variance plus eps) is a positive number, for every image
   size, a single pixel included. *)

ConstantPlanes(feat) ==
    \A b \in DOMAIN feat : \A ch \in DOMAIN feat[b] :
        \A i \in DOMAIN feat[b][ch] : feat[b][ch][i] = feat[b][ch][1]

C8_Original ==
    (pc = "adain_done" /\ ConstantPlanes(content_feat)) =>
        \A b \in DOMAIN adain_out : \A ch \in DOMAIN adain_out[b] :
            \A i \in DOMAIN adain_out[b][ch] :
                LET o == adain_out[b][ch][i]
                    px == style_feat[b][ch]
                IN  /\ ~o.nan
                    /\ o.content_var[1] > 0 /\ o.content_var[2] > 0
                    /\ o.dev = <<0, 1>>
                    /\ o.mean[1] * Len(px) = SeqSum(px) * o.mean[2]

(* C9 as stated. The assertion of line 418 holds in every run that reaches
   it: after the sampling loop the number of recorded NIQE scores equals the
   number of names left in img_list. *)

C9_Original == pc = "assert" => Len(niqe_list) = Len(img_list)

(* C10. With --skip_save off, the k-th image the sampling loop processes is
   saved under the name of the file it was loaded from; no skipped file's
   name is written; and once the loop has ended every eligible file has been
   saved exactly once. *)

Skipped == {x \in SeqRange(img_list_ori) : x \in sample_dir \/ x \in too_large}
Eligible == SeqRange(img_list_ori) \ Skipped

C10_NamesAligned ==
    /\ \A k \in 1..Len(saved) :
          /\ saved[k].name = saved[k].image
          /\ saved[k].image = init_image_list[k]
          /\ saved[k].name \notin Skipped
    /\ (pc \in {"assert", "done", "assert_failed"} /\ ~opt.skip_save) =>
          /\ SeqRange([k \in 1..Len(saved) |-> saved[k].name]) = Eligible
          /\ Len(saved) = Cardinality(Eligible)

C10_Witness ==
    /\ pc = "assert" /\ ~opt.skip_save
    /\ Len(img_list_ori) >= 2
    /\ img_list_ori[1] \in Skipped
    /\ Len(saved) >= 1
    /\ saved[1].name = img_list_ori[2]

===========================================================================
